---------------------------- MODULE Spec2Model ----------------------------
(***************************************************************************)
(* FinancialModels (src/WACC_TerminalGrowth_Model.py): seven methods of    *)
(* one class without instance attributes, called by a caller on one shared *)
(* instance.                                                               *)
(*                                                                         *)
(* Numbers.  A number is a record [n, d], the fraction n/d in lowest terms *)
(* with d > 0.  The float64 values that are no numbers are held in the     *)
(* same shape with d = 0: 1/0 is +inf, -1/0 is -inf, 0/0 is NaN.           *)
(* Arithmetic on finite values is exact: the rounding of binary64 is not   *)
(* part of this model.  What is modelled of the two arithmetics the file   *)
(* uses is where they differ on a zero divisor: Python's "/" on scalars    *)
(* raises ZeroDivisionError, numpy's "/" on arrays yields inf or NaN (and  *)
(* a RuntimeWarning) and goes on.                                          *)
(***************************************************************************)
EXTENDS Integers, Sequences, FiniteSets, TLC

VARIABLES
    self,             \* the shared instance's attributes (its __dict__)
    pc,               \* the caller: "idle", or "returned" from a call
    call,             \* the call made last: the method and its arguments
    outcome,          \* how that call ended: a return value or an exception
    historical_data,  \* the caller's list object, as it is after the call
    locals            \* the local variables of the method called

vars == <<self, pc, call, outcome, historical_data, locals>>

----------------------------------------------------------------------------
(* Bounds of the model. *)

\* Longest series drawn for historical_growth_analysis (besides main's).
MaxLen == 4

\* Threads calling methods of the shared instance at the same time.
NumThreads == 2

----------------------------------------------------------------------------
(* Exact fractions, and the float64 specials. *)

Abs(i) == IF i < 0 THEN -i ELSE i

RECURSIVE GCD(_, _)
GCD(a, b) == IF b = 0 THEN a ELSE GCD(b, a % b)

\* n/d in lowest terms with a positive denominator (d # 0).
Norm(n, d) ==
    LET g == GCD(Abs(n), Abs(d))
        s == IF d < 0 THEN -1 ELSE 1
    IN  [n |-> (s * n) \div g, d |-> (s * d) \div g]

R(n, d) == Norm(n, d)
Int2F(i) == [n |-> i, d |-> 1]

Zero == Int2F(0)
One == Int2F(1)
Inf == [n |-> 1, d |-> 0]
NegInf == [n |-> -1, d |-> 0]
NaN == [n |-> 0, d |-> 0]

IsNaN(x) == x.d = 0 /\ x.n = 0
IsInf(x) == x.d = 0 /\ x.n # 0
IsFinite(x) == x.d > 0
IsZero(x) == x.d > 0 /\ x.n = 0
Sign(x) == IF x.n > 0 THEN 1 ELSE IF x.n < 0 THEN -1 ELSE 0

Neg(x) == [n |-> -x.n, d |-> x.d]

\* x + y (IEEE 754: inf + -inf is NaN).
Add(x, y) ==
    IF IsNaN(x) \/ IsNaN(y) THEN NaN
    ELSE IF IsInf(x) /\ IsInf(y) THEN (IF x.n = y.n THEN x ELSE NaN)
    ELSE IF IsInf(x) THEN x
    ELSE IF IsInf(y) THEN y
    ELSE LET g == GCD(x.d, y.d)
         IN  Norm(x.n * (y.d \div g) + y.n * (x.d \div g), x.d * (y.d \div g))

Sub(x, y) == Add(x, Neg(y))

\* x * y (IEEE 754: inf * 0 is NaN).
Mul(x, y) ==
    IF IsNaN(x) \/ IsNaN(y) THEN NaN
    ELSE IF IsInf(x) \/ IsInf(y)
         THEN (IF Sign(x) * Sign(y) = 0 THEN NaN
               ELSE IF Sign(x) * Sign(y) > 0 THEN Inf ELSE NegInf)
    ELSE LET g1 == GCD(Abs(x.n), y.d)
             g2 == GCD(Abs(y.n), x.d)
         IN  Norm((x.n \div g1) * (y.n \div g2), (x.d \div g2) * (y.d \div g1))

\* x / y for finite x and finite y # 0.
Quot(x, y) == Mul(x, Norm(y.d, y.n))

\* numpy's true_divide on float64: a zero divisor gives inf or NaN.
TrueDivide(x, y) ==
    IF IsNaN(x) \/ IsNaN(y) THEN NaN
    ELSE IF IsInf(x) THEN (IF IsInf(y) THEN NaN
                           ELSE IF Sign(x) * (IF Sign(y) < 0 THEN -1 ELSE 1) > 0
                                THEN Inf ELSE NegInf)
    ELSE IF IsInf(y) THEN Zero
    ELSE IF IsZero(y) THEN (IF Sign(x) = 0 THEN NaN
                            ELSE IF Sign(x) > 0 THEN Inf ELSE NegInf)
    ELSE Quot(x, y)

\* x < y and x <= y on values that are not NaN.
Lt(x, y) ==
    IF IsInf(x) THEN x.n < 0 /\ ~(IsInf(y) /\ y.n < 0)
    ELSE IF IsInf(y) THEN y.n > 0
    ELSE x.n * y.d < y.n * x.d

Le(x, y) == x = y \/ Lt(x, y)

----------------------------------------------------------------------------
(* How a call ends, and what it leaves behind. *)

Return(v) == [kind |-> "return", value |-> v]
\* by: the operation that raised (an operator of Python or a function of numpy).
Raise(e, by) == [kind |-> "raise", exc |-> e, by |-> by]
NoOutcome == [kind |-> "none"]

\* The instance __init__ builds: no attribute is set.
NoAttributes == [a \in {} |-> Zero]

\* A frame before its first assignment: no local is bound.
NoLocals == <<>>

\* A method's effect: the instance after the call, the call's outcome and the
\* locals of its frame.
Frame(s, out, l) == [self |-> s, ret |-> out, locals |-> l]

\* A statement's effect: the instance and the locals after it, and either the
\* line to go on with or the outcome that ends the call.
Goto(line, s, l) == [self |-> s, locals |-> l, pc |-> line, ret |-> NoOutcome]
Done(s, l, out) == [self |-> s, locals |-> l, pc |-> "returned", ret |-> out]

----------------------------------------------------------------------------
(* calculate_wacc, statement by statement.  a: the arguments, l: the locals. *)
(* Python's "/" raises ZeroDivisionError on a zero divisor.                  *)

\* Line 22 keeping the total on the instance, and taking it from there when
\* it is there already.
calculate_wacc_line22_memo(s, a, l) ==
    IF "total_value" \in DOMAIN s
    THEN Goto("L23", s, [total_value |-> s["total_value"]] @@ l)
    ELSE LET v == Add(a.equity_value, a.debt_value)
         IN  Goto("L23", [x \in {"total_value"} |-> v], [total_value |-> v] @@ l)

\* total_value = equity_value + debt_value
calculate_wacc_line22(s, a, l) ==
    Goto("L23", s, [total_value |-> Add(a.equity_value, a.debt_value)] @@ l)

\* equity_weight = equity_value / total_value
calculate_wacc_line23(s, a, l) ==
    IF IsZero(l.total_value) THEN Done(s, l, Raise("ZeroDivisionError", "/"))
    ELSE Goto("L24", s, [equity_weight |-> Quot(a.equity_value, l.total_value)] @@ l)

\* Line 24 weighing the debt against the equity, not the total.
calculate_wacc_line24_debt_to_equity(s, a, l) ==
    IF IsZero(a.equity_value) THEN Done(s, l, Raise("ZeroDivisionError", "/"))
    ELSE Goto("L26", s, [debt_weight |-> Quot(a.debt_value, a.equity_value)] @@ l)

\* debt_weight = debt_value / total_value
calculate_wacc_line24(s, a, l) ==
    IF IsZero(l.total_value) THEN Done(s, l, Raise("ZeroDivisionError", "/"))
    ELSE Goto("L26", s, [debt_weight |-> Quot(a.debt_value, l.total_value)] @@ l)

\* Line 26 without the tax shield on the cost of debt.
calculate_wacc_line26_no_tax_shield(s, a, l) ==
    Goto("L27", s, [wacc |-> Add(Mul(l.equity_weight, a.cost_of_equity),
                                 Mul(l.debt_weight, a.cost_of_debt))] @@ l)

\* wacc = (equity_weight * cost_of_equity) + (debt_weight * cost_of_debt * (1 - tax_rate))
calculate_wacc_line26(s, a, l) ==
    Goto("L27", s, [wacc |-> Add(Mul(l.equity_weight, a.cost_of_equity),
                                 Mul(Mul(l.debt_weight, a.cost_of_debt),
                                     Sub(One, a.tax_rate)))] @@ l)

\* return wacc
calculate_wacc_line27(s, a, l) == Done(s, l, Return(l.wacc))

calculate_wacc_statement(line, s, a, l) ==
    CASE line = "L22" -> calculate_wacc_line22(s, a, l)
      [] line = "L23" -> calculate_wacc_line23(s, a, l)
      [] line = "L24" -> calculate_wacc_line24(s, a, l)
      [] line = "L26" -> calculate_wacc_line26(s, a, l)
      [] line = "L27" -> calculate_wacc_line27(s, a, l)

WaccLines == {"L22", "L23", "L24", "L26", "L27"}

\* The statements from line on, one after the other, to the end of the call.
RECURSIVE calculate_wacc_from(_, _, _, _)
calculate_wacc_from(line, s, a, l) ==
    LET r == calculate_wacc_statement(line, s, a, l)
    IN  IF r.pc = "returned" THEN Frame(r.self, r.ret, r.locals)
        ELSE calculate_wacc_from(r.pc, r.self, a, r.locals)

calculate_wacc(s, equity_value, debt_value, cost_of_equity, cost_of_debt, tax_rate) ==
    calculate_wacc_from("L22", s,
                        [equity_value |-> equity_value, debt_value |-> debt_value,
                         cost_of_equity |-> cost_of_equity, cost_of_debt |-> cost_of_debt,
                         tax_rate |-> tax_rate],
                        NoLocals)

----------------------------------------------------------------------------
(* The five methods of one return statement. *)

calculate_cost_of_equity(s, risk_free_rate, beta, market_risk_premium) ==
    Frame(s, Return(Add(risk_free_rate, Mul(beta, market_risk_premium))), NoLocals)

adjustment_factor_default == One

calculate_terminal_growth_gdp(s, real_gdp_growth, inflation_rate, adjustment_factor) ==
    Frame(s, Return(Mul(Add(real_gdp_growth, inflation_rate), adjustment_factor)), NoLocals)

calculate_terminal_growth_reinvestment(s, return_on_capital, reinvestment_rate) ==
    Frame(s, Return(Mul(return_on_capital, reinvestment_rate)), NoLocals)

calculate_reinvestment_rate(s, capex, depreciation, working_capital_change, ebit, tax_rate) ==
    LET numerator == Add(Sub(capex, depreciation), working_capital_change)
        denominator == Mul(ebit, Sub(One, tax_rate))
    IN  IF IsZero(denominator) THEN Frame(s, Raise("ZeroDivisionError", "/"), NoLocals)
        ELSE Frame(s, Return(Quot(numerator, denominator)), NoLocals)

\* calculate_terminal_value dividing as numpy does: inf or NaN, no exception.
calculate_terminal_value_float64(s, final_cash_flow, terminal_growth_rate, discount_rate) ==
    Frame(s, Return(TrueDivide(Mul(final_cash_flow, Add(One, terminal_growth_rate)),
                               Sub(discount_rate, terminal_growth_rate))), NoLocals)

\* calculate_terminal_value taking the size of the spread, never its sign.
calculate_terminal_value_abs_spread(s, final_cash_flow, terminal_growth_rate, discount_rate) ==
    LET numerator == Mul(final_cash_flow, Add(One, terminal_growth_rate))
        spread == Sub(discount_rate, terminal_growth_rate)
        denominator == IF spread.n < 0 THEN Neg(spread) ELSE spread
    IN  IF IsZero(denominator) THEN Frame(s, Raise("ZeroDivisionError", "/"), NoLocals)
        ELSE Frame(s, Return(Quot(numerator, denominator)), NoLocals)

calculate_terminal_value(s, final_cash_flow, terminal_growth_rate, discount_rate) ==
    LET numerator == Mul(final_cash_flow, Add(One, terminal_growth_rate))
        denominator == Sub(discount_rate, terminal_growth_rate)
    IN  IF IsZero(denominator) THEN Frame(s, Raise("ZeroDivisionError", "/"), NoLocals)
        ELSE Frame(s, Return(Quot(numerator, denominator)), NoLocals)

----------------------------------------------------------------------------
(* numpy, as far as historical_growth_analysis uses it. *)

\* np.array(list): a new array holding the list's values.
np_array(lst) == [i \in 1..Len(lst) |-> lst[i]]

\* data[1:] and data[:-1]
slice_from_1(a) == IF Len(a) = 0 THEN <<>> ELSE SubSeq(a, 2, Len(a))
slice_to_last(a) == IF Len(a) = 0 THEN <<>> ELSE SubSeq(a, 1, Len(a) - 1)

\* a - b on integer arrays of one shape, and a / b (true_divide: the integers
\* become float64, a zero divisor gives inf or NaN).
np_subtract(a, b) == [i \in 1..Len(a) |-> a[i] - b[i]]
\* A division that puts 0 where the divisor is 0.
np_true_divide_zero_safe(a, b) ==
    [i \in 1..Len(a) |-> IF b[i] = 0 THEN Zero ELSE TrueDivide(Int2F(a[i]), Int2F(b[i]))]

np_true_divide(a, b) == [i \in 1..Len(a) |-> TrueDivide(Int2F(a[i]), Int2F(b[i]))]

RECURSIVE np_sum(_)
np_sum(a) == IF Len(a) = 0 THEN Zero ELSE Add(np_sum(SubSeq(a, 1, Len(a) - 1)), a[Len(a)])

\* np.mean: the sum over the count; NaN (0/0) on an empty array.
np_mean(a) == TrueDivide(np_sum(a), Int2F(Len(a)))

HasNaN(a) == \E i \in 1..Len(a) : IsNaN(a[i])

RECURSIVE Insert(_, _)
Insert(x, sorted) ==
    IF Len(sorted) = 0 THEN <<x>>
    ELSE IF Le(x, sorted[1]) THEN <<x>> \o sorted
    ELSE <<sorted[1]>> \o Insert(x, Tail(sorted))

RECURSIVE np_sort(_)
np_sort(a) == IF Len(a) = 0 THEN <<>> ELSE Insert(a[1], np_sort(Tail(a)))

\* np.median: the mean of the middle element, or of the two middle elements,
\* of the sorted values; NaN when a value is NaN or the array is empty.
np_median(a) ==
    IF Len(a) = 0 \/ HasNaN(a) THEN NaN
    ELSE LET part == np_sort(a)
             n == Len(a)
             index == n \div 2
         IN  IF n % 2 = 1 THEN np_mean(<<part[index + 1]>>)
             ELSE np_mean(<<part[index], part[index + 1]>>)

\* np.sqrt of a fraction has no exact fraction: the root is held by its radicand.
np_sqrt(x) == [sqrt_of |-> x]

\* np.std without the squaring of the deviations.
np_std_unsquared(a) ==
    LET arrmean == np_mean(a)
        x == [i \in 1..Len(a) |-> Sub(a[i], arrmean)]
    IN  np_sqrt(TrueDivide(np_sum(x), Int2F(Len(a))))

\* np.std (ddof = 0): the root of the mean of the squared deviations from the mean.
np_std(a) ==
    LET arrmean == np_mean(a)
        x == [i \in 1..Len(a) |-> Sub(a[i], arrmean)]
        sq == [i \in 1..Len(a) |-> Mul(x[i], x[i])]
    IN  np_sqrt(TrueDivide(np_sum(sq), Int2F(Len(a))))

RECURSIVE Least(_)
Least(a) ==
    IF Len(a) = 1 THEN a[1]
    ELSE LET m == Least(Tail(a)) IN IF Le(a[1], m) THEN a[1] ELSE m

RECURSIVE Greatest(_)
Greatest(a) ==
    IF Len(a) = 1 THEN a[1]
    ELSE LET m == Greatest(Tail(a)) IN IF Le(m, a[1]) THEN a[1] ELSE m

\* np.min and np.max: a reduction without identity, which raises ValueError on
\* an empty array; NaN when a value is NaN.
np_min(a) ==
    IF Len(a) = 0 THEN Raise("ValueError", "np.min")
    ELSE IF HasNaN(a) THEN Return(NaN)
    ELSE Return(Least(a))

np_max(a) ==
    IF Len(a) = 0 THEN Raise("ValueError", "np.max")
    ELSE IF HasNaN(a) THEN Return(NaN)
    ELSE Return(Greatest(a))

----------------------------------------------------------------------------
(* historical_growth_analysis *)

periods_default == 5

\* The absolute change of each pair, not the change relative to the earlier value.
growth_rates_of_differences(data) ==
    LET change == np_subtract(slice_from_1(data), slice_to_last(data))
    IN  [i \in 1..Len(change) |-> Int2F(change[i])]

\* growth_rates = (data[1:] - data[:-1]) / data[:-1]
growth_rates_of(data) ==
    np_true_divide(np_subtract(slice_from_1(data), slice_to_last(data)),
                   slice_to_last(data))

\* The statistics of the growth rates: the dict display evaluates its values in
\* order, and the first that raises ends the call.
growth_statistics(rates) ==
    LET mean_growth == np_mean(rates)
        median_growth == np_median(rates)
        std_dev == np_std(rates)
        min_growth == np_min(rates)
        max_growth == np_max(rates)
        ret == IF min_growth.kind = "raise" THEN min_growth
               ELSE IF max_growth.kind = "raise" THEN max_growth
               ELSE Return([mean_growth |-> mean_growth,
                            median_growth |-> median_growth,
                            std_dev |-> std_dev,
                            min_growth |-> min_growth.value,
                            max_growth |-> max_growth.value])
    IN  ret

\* data = np.array(historical_data): lst is what the list object holds now.
historical_growth_analysis_line85(s, lst, periods, l) ==
    [historical_data |-> lst] @@ Goto("L86", s, [data |-> np_array(lst)] @@ l)

\* growth_rates = (data[1:] - data[:-1]) / data[:-1]
historical_growth_analysis_line86(s, lst, periods, l) ==
    [historical_data |-> lst]
        @@ Goto("L88", s, [growth_rates |-> growth_rates_of(l.data)] @@ l)

\* Lines 88-94 honouring periods: the statistics of the last periods growth
\* rates only.
historical_growth_analysis_line88_windowed(s, lst, periods, l) ==
    LET rates == l.growth_rates
        window == IF periods > 0 /\ periods < Len(rates)
                  THEN SubSeq(rates, Len(rates) - periods + 1, Len(rates))
                  ELSE rates
    IN  [historical_data |-> lst] @@ Done(s, l, growth_statistics(window))

\* return {'mean_growth': np.mean(growth_rates), ...}
historical_growth_analysis_line88(s, lst, periods, l) ==
    [historical_data |-> lst] @@ Done(s, l, growth_statistics(l.growth_rates))

\* periods is passed to every statement, and read by none.
historical_growth_analysis_statement(line, s, lst, periods, l) ==
    CASE line = "L85" -> historical_growth_analysis_line85(s, lst, periods, l)
      [] line = "L86" -> historical_growth_analysis_line86(s, lst, periods, l)
      [] line = "L88" -> historical_growth_analysis_line88(s, lst, periods, l)

HistoricalGrowthAnalysisLines == {"L85", "L86", "L88"}

RECURSIVE historical_growth_analysis_from(_, _, _, _, _)
historical_growth_analysis_from(line, s, lst, periods, l) ==
    LET r == historical_growth_analysis_statement(line, s, lst, periods, l)
    IN  IF r.pc = "returned"
        THEN [historical_data |-> r.historical_data] @@ Frame(r.self, r.ret, r.locals)
        ELSE historical_growth_analysis_from(r.pc, r.self, r.historical_data, periods,
                                             r.locals)

\* The call's effect: the instance, the outcome, the locals, and the caller's
\* list as the call leaves it.
historical_growth_analysis(s, lst, periods) ==
    historical_growth_analysis_from("L85", s, lst, periods, NoLocals)

----------------------------------------------------------------------------
(* The arguments a caller passes. *)

MoneyValues == {Int2F(-1), Int2F(0), Int2F(1), Int2F(3)}
RateValues == {R(-1, 10), Zero, R(1, 20), R(1, 10)}
TaxValues == {Zero, R(1, 4), One, R(3, 2)}
FactorValues == {Zero, One, Int2F(2)}
AmountValues == {Zero, Int2F(2)}
EbitValues == {Int2F(-1), Zero, Int2F(2)}
CashFlowValues == {Int2F(-100), Zero, Int2F(100)}
GrowthValues == {Int2F(-2), R(-1, 2), R(3, 100), R(2, 25)}
DiscountValues == {R(-1, 2), R(3, 100), R(2, 25), R(1, 10)}
DataValues == {-1, 0, 1, 2}
PeriodValues == {-1, 0, 2, periods_default}

\* main()'s example calls (lines 102-108 and 126-127).
MainWacc == <<Int2F(1000000), Int2F(500000), R(1, 10), R(1, 20), R(1, 4)>>
MainHistoricalData == <<100, 110, 125, 135, 150, 172>>

WaccArgs ==
    (MoneyValues \X MoneyValues \X RateValues \X RateValues \X TaxValues) \cup {MainWacc}

SeriesOfLen(k) == [1..k -> DataValues]
Series == (UNION {SeriesOfLen(k) : k \in 0..MaxLen}) \cup {MainHistoricalData}

NoCall == [op |-> "none"]

WaccCall(a) ==
    [op |-> "calculate_wacc", equity_value |-> a[1], debt_value |-> a[2],
     cost_of_equity |-> a[3], cost_of_debt |-> a[4], tax_rate |-> a[5]]

----------------------------------------------------------------------------
(* The state machine: the caller makes one call at a time on the shared       *)
(* instance and takes its outcome before the next.                          *)

Init ==
    /\ self = NoAttributes
    /\ pc = "idle"
    /\ call = NoCall
    /\ outcome = NoOutcome
    /\ historical_data = <<>>
    /\ locals = NoLocals

\* A scalar method was called: f is its effect.
Scalar(c, f) ==
    /\ pc' = "returned"
    /\ call' = c
    /\ self' = f.self
    /\ outcome' = f.ret
    /\ locals' = f.locals
    /\ UNCHANGED historical_data

CalculateWacc ==
    /\ pc = "idle"
    /\ \E a \in WaccArgs :
         Scalar(WaccCall(a), calculate_wacc(self, a[1], a[2], a[3], a[4], a[5]))

CalculateCostOfEquity ==
    /\ pc = "idle"
    /\ \E risk_free_rate \in RateValues, beta \in FactorValues,
          market_risk_premium \in RateValues :
         Scalar([op |-> "calculate_cost_of_equity", risk_free_rate |-> risk_free_rate,
                 beta |-> beta, market_risk_premium |-> market_risk_premium],
                calculate_cost_of_equity(self, risk_free_rate, beta, market_risk_premium))

CalculateTerminalGrowthGdp ==
    /\ pc = "idle"
    /\ \E real_gdp_growth \in RateValues, inflation_rate \in RateValues :
         \/ \E adjustment_factor \in FactorValues :
              Scalar([op |-> "calculate_terminal_growth_gdp",
                      real_gdp_growth |-> real_gdp_growth,
                      inflation_rate |-> inflation_rate,
                      adjustment_factor |-> adjustment_factor, defaulted |-> FALSE],
                     calculate_terminal_growth_gdp(self, real_gdp_growth, inflation_rate,
                                                   adjustment_factor))
         \/ Scalar([op |-> "calculate_terminal_growth_gdp",
                    real_gdp_growth |-> real_gdp_growth,
                    inflation_rate |-> inflation_rate,
                    adjustment_factor |-> adjustment_factor_default, defaulted |-> TRUE],
                   calculate_terminal_growth_gdp(self, real_gdp_growth, inflation_rate,
                                                 adjustment_factor_default))

CalculateTerminalGrowthReinvestment ==
    /\ pc = "idle"
    /\ \E return_on_capital \in RateValues, reinvestment_rate \in RateValues :
         Scalar([op |-> "calculate_terminal_growth_reinvestment",
                 return_on_capital |-> return_on_capital,
                 reinvestment_rate |-> reinvestment_rate],
                calculate_terminal_growth_reinvestment(self, return_on_capital,
                                                       reinvestment_rate))

CalculateReinvestmentRate ==
    /\ pc = "idle"
    /\ \E capex \in AmountValues, depreciation \in AmountValues,
          working_capital_change \in AmountValues, ebit \in EbitValues,
          tax_rate \in TaxValues :
         Scalar([op |-> "calculate_reinvestment_rate", capex |-> capex,
                 depreciation |-> depreciation,
                 working_capital_change |-> working_capital_change,
                 ebit |-> ebit, tax_rate |-> tax_rate],
                calculate_reinvestment_rate(self, capex, depreciation,
                                            working_capital_change, ebit, tax_rate))

CalculateTerminalValue ==
    /\ pc = "idle"
    /\ \E final_cash_flow \in CashFlowValues, terminal_growth_rate \in GrowthValues,
          discount_rate \in DiscountValues :
         Scalar([op |-> "calculate_terminal_value", final_cash_flow |-> final_cash_flow,
                 terminal_growth_rate |-> terminal_growth_rate,
                 discount_rate |-> discount_rate],
                calculate_terminal_value(self, final_cash_flow, terminal_growth_rate,
                                         discount_rate))

HistoricalGrowthAnalysis ==
    /\ pc = "idle"
    /\ \E lst \in Series, periods \in PeriodValues :
         LET f == historical_growth_analysis(self, lst, periods)
         IN  /\ pc' = "returned"
             /\ call' = [op |-> "historical_growth_analysis",
                         historical_data |-> lst, periods |-> periods]
             /\ self' = f.self
             /\ outcome' = f.ret
             /\ historical_data' = f.historical_data
             /\ locals' = f.locals

\* The caller takes the outcome (main prints it) and is free to call again.
TakeOutcome ==
    /\ pc = "returned"
    /\ pc' = "idle"
    /\ call' = NoCall
    /\ outcome' = NoOutcome
    /\ historical_data' = <<>>
    /\ locals' = NoLocals
    /\ UNCHANGED self

Next ==
    \/ CalculateWacc
    \/ CalculateCostOfEquity
    \/ CalculateTerminalGrowthGdp
    \/ CalculateTerminalGrowthReinvestment
    \/ CalculateReinvestmentRate
    \/ CalculateTerminalValue
    \/ HistoricalGrowthAnalysis
    \/ TakeOutcome

Spec == Init /\ [][Next]_vars

----------------------------------------------------------------------------
(* Threads.  Several threads call methods of the one instance, their         *)
(* statements interleaved; all pass the same list object to                  *)
(* historical_growth_analysis.  Here pc, call, outcome and locals hold one   *)
(* value per thread, pc the line a thread is to execute next, and            *)
(* historical_data is the shared list object.                                *)

Threads == 1..NumThreads

\* The effect of call c as a whole on an instance with attributes s.
Apply(s, c) ==
    CASE c.op = "calculate_wacc" ->
           calculate_wacc(s, c.equity_value, c.debt_value, c.cost_of_equity,
                          c.cost_of_debt, c.tax_rate)
      [] c.op = "calculate_cost_of_equity" ->
           calculate_cost_of_equity(s, c.risk_free_rate, c.beta, c.market_risk_premium)
      [] c.op = "calculate_terminal_growth_gdp" ->
           calculate_terminal_growth_gdp(s, c.real_gdp_growth, c.inflation_rate,
                                         c.adjustment_factor)
      [] c.op = "calculate_terminal_growth_reinvestment" ->
           calculate_terminal_growth_reinvestment(s, c.return_on_capital,
                                                  c.reinvestment_rate)
      [] c.op = "calculate_reinvestment_rate" ->
           calculate_reinvestment_rate(s, c.capex, c.depreciation,
                                       c.working_capital_change, c.ebit, c.tax_rate)
      [] c.op = "calculate_terminal_value" ->
           calculate_terminal_value(s, c.final_cash_flow, c.terminal_growth_rate,
                                    c.discount_rate)
      [] c.op = "historical_growth_analysis" ->
           historical_growth_analysis(s, c.historical_data, c.periods)

\* The line a call of a method starts at.
FirstLine(op) ==
    CASE op = "calculate_wacc" -> "L22"
      [] op = "calculate_cost_of_equity" -> "L33"
      [] op = "calculate_terminal_growth_gdp" -> "L47"
      [] op = "calculate_terminal_growth_reinvestment" -> "L60"
      [] op = "calculate_reinvestment_rate" -> "L66"
      [] op = "calculate_terminal_value" -> "L72"
      [] op = "historical_growth_analysis" -> "L85"

ReturnLines == {"L33", "L47", "L60", "L66", "L72"}

\* The calls the threads make: each method, and each way it can end.
ThreadSeries == {<<2>>, <<1, 0, 2>>, <<2, 1, -1, 2>>}

ThreadCalls(lst) ==
    { WaccCall(<<Int2F(1), Int2F(3), R(1, 10), R(1, 20), R(1, 4)>>),
      WaccCall(<<Int2F(-1), Int2F(1), R(1, 10), R(1, 20), R(1, 4)>>),
      [op |-> "calculate_cost_of_equity", risk_free_rate |-> R(1, 20), beta |-> One,
       market_risk_premium |-> R(1, 10)],
      [op |-> "calculate_terminal_growth_gdp", real_gdp_growth |-> R(1, 20),
       inflation_rate |-> R(1, 10), adjustment_factor |-> adjustment_factor_default,
       defaulted |-> TRUE],
      [op |-> "calculate_terminal_growth_reinvestment", return_on_capital |-> R(1, 10),
       reinvestment_rate |-> R(1, 20)],
      [op |-> "calculate_reinvestment_rate", capex |-> Int2F(2), depreciation |-> Zero,
       working_capital_change |-> Zero, ebit |-> Int2F(2), tax_rate |-> R(1, 4)],
      [op |-> "calculate_reinvestment_rate", capex |-> Int2F(2), depreciation |-> Zero,
       working_capital_change |-> Zero, ebit |-> Int2F(2), tax_rate |-> One],
      [op |-> "calculate_terminal_value", final_cash_flow |-> Int2F(100),
       terminal_growth_rate |-> R(3, 100), discount_rate |-> R(2, 25)],
      [op |-> "historical_growth_analysis", historical_data |-> lst,
       periods |-> periods_default] }

InitThreads ==
    /\ self = NoAttributes
    /\ historical_data \in ThreadSeries
    /\ pc = [t \in Threads |-> "idle"]
    /\ call = [t \in Threads |-> NoCall]
    /\ outcome = [t \in Threads |-> NoOutcome]
    /\ locals = [t \in Threads |-> NoLocals]

\* Thread t calls a method: a frame with the arguments bound and no local.
ThreadCall(t) ==
    /\ pc[t] = "idle"
    /\ \E c \in ThreadCalls(historical_data) :
         /\ call' = [call EXCEPT ![t] = c]
         /\ pc' = [pc EXCEPT ![t] = FirstLine(c.op)]
    /\ UNCHANGED <<self, historical_data, outcome, locals>>

\* Thread t executes the statement of calculate_wacc it is at.
ThreadCalculateWaccStatement(t) ==
    /\ pc[t] \in WaccLines
    /\ LET r == calculate_wacc_statement(pc[t], self, call[t], locals[t])
       IN  /\ self' = r.self
           /\ locals' = [locals EXCEPT ![t] = r.locals]
           /\ pc' = [pc EXCEPT ![t] = r.pc]
           /\ outcome' = [outcome EXCEPT ![t] = r.ret]
    /\ UNCHANGED <<historical_data, call>>

\* Thread t executes the statement of historical_growth_analysis it is at.
ThreadHistoricalGrowthAnalysisStatement(t) ==
    /\ pc[t] \in HistoricalGrowthAnalysisLines
    /\ LET r == historical_growth_analysis_statement(pc[t], self, historical_data,
                                                     call[t].periods, locals[t])
       IN  /\ self' = r.self
           /\ historical_data' = r.historical_data
           /\ locals' = [locals EXCEPT ![t] = r.locals]
           /\ pc' = [pc EXCEPT ![t] = r.pc]
           /\ outcome' = [outcome EXCEPT ![t] = r.ret]
    /\ UNCHANGED call

\* Thread t executes the one return statement of one of the other methods.
ThreadReturnStatement(t) ==
    /\ pc[t] \in ReturnLines
    /\ LET f == Apply(self, call[t])
       IN  /\ self' = f.self
           /\ locals' = [locals EXCEPT ![t] = f.locals]
           /\ outcome' = [outcome EXCEPT ![t] = f.ret]
    /\ pc' = [pc EXCEPT ![t] = "returned"]
    /\ UNCHANGED <<historical_data, call>>

\* Thread t takes the outcome of its call and is free to call again.
ThreadTakeOutcome(t) ==
    /\ pc[t] = "returned"
    /\ pc' = [pc EXCEPT ![t] = "idle"]
    /\ call' = [call EXCEPT ![t] = NoCall]
    /\ outcome' = [outcome EXCEPT ![t] = NoOutcome]
    /\ locals' = [locals EXCEPT ![t] = NoLocals]
    /\ UNCHANGED <<self, historical_data>>

NextThreads ==
    \E t \in Threads :
        \/ ThreadCall(t)
        \/ ThreadCalculateWaccStatement(t)
        \/ ThreadHistoricalGrowthAnalysisStatement(t)
        \/ ThreadReturnStatement(t)
        \/ ThreadTakeOutcome(t)

SpecThreads == InitThreads /\ [][NextThreads]_vars

----------------------------------------------------------------------------
(* The claims. *)

Returned(op) == pc = "returned" /\ call.op = op

Smaller(x, y) == IF Le(x, y) THEN x ELSE y
Larger(x, y) == IF Le(x, y) THEN y ELSE x

C4_ZeroDenominatorRaises ==
    LET Ends(zero) ==
            IF zero THEN outcome.kind = "raise" /\ outcome.exc = "ZeroDivisionError"
            ELSE outcome.kind = "return" /\ IsFinite(outcome.value)
    IN  /\ Returned("calculate_wacc") =>
             Ends(IsZero(Add(call.equity_value, call.debt_value)))
        /\ Returned("calculate_reinvestment_rate") =>
             Ends(call.ebit = Zero \/ call.tax_rate = One)
        /\ Returned("calculate_terminal_value") =>
             Ends(call.discount_rate = call.terminal_growth_rate)

\* C4's case: the terminal value of equal rates and a cash flow that is not 0.
C4_Witness ==
    /\ Returned("calculate_terminal_value")
    /\ call.discount_rate = call.terminal_growth_rate
    /\ call.final_cash_flow # Zero
    /\ outcome.kind = "raise"

\* C8: with discount_rate # terminal_growth_rate, calculate_terminal_value
\* returns v with v * (discount_rate - terminal_growth_rate) =
\* final_cash_flow * (1 + terminal_growth_rate), whatever the sign of the
\* spread: for final_cash_flow > 0 and terminal_growth_rate > -1, v < 0 when
\* discount_rate < terminal_growth_rate and v > 0 when it is greater; 2060 for
\* (100, 0.03, 0.08).
C8_TerminalValueUnchecked ==
    (Returned("calculate_terminal_value")
     /\ call.discount_rate # call.terminal_growth_rate)
    => /\ outcome.kind = "return"
       /\ Mul(outcome.value, Sub(call.discount_rate, call.terminal_growth_rate))
            = Mul(call.final_cash_flow, Add(One, call.terminal_growth_rate))
       /\ (Lt(Zero, call.final_cash_flow) /\ Lt(Int2F(-1), call.terminal_growth_rate)) =>
            /\ Lt(call.discount_rate, call.terminal_growth_rate) => Lt(outcome.value, Zero)
            /\ Lt(call.terminal_growth_rate, call.discount_rate) => Lt(Zero, outcome.value)
       /\ (/\ call.final_cash_flow = Int2F(100)
           /\ call.terminal_growth_rate = R(3, 100)
           /\ call.discount_rate = R(2, 25)) => outcome.value = Int2F(2060)

\* C8's case: a negative spread and the negative value returned for it.
C8_Witness ==
    /\ Returned("calculate_terminal_value")
    /\ Lt(Zero, call.final_cash_flow)
    /\ Lt(Int2F(-1), call.terminal_growth_rate)
    /\ Lt(call.discount_rate, call.terminal_growth_rate)
    /\ outcome.kind = "return"
    /\ Lt(outcome.value, Zero)

----------------------------------------------------------------------------
(* The claims on historical_growth_analysis. *)

StatisticNames == {"mean_growth", "median_growth", "std_dev", "min_growth", "max_growth"}

\* A mapping of finite statistics (the root is finite when its radicand is).
AllFinite(m) ==
    /\ IsFinite(m.mean_growth)
    /\ IsFinite(m.median_growth)
    /\ IsFinite(m.std_dev.sqrt_of)
    /\ IsFinite(m.min_growth)
    /\ IsFinite(m.max_growth)

RECURSIVE Total(_)
Total(a) == IF a = <<>> THEN Zero ELSE Add(Head(a), Total(Tail(a)))

\* C2: on a series of fewer than 2 elements historical_growth_analysis ends in
\* an insufficient-data error of its own, not in a mapping and not in an error
\* raised by the indexing, the statistics or the arithmetic it calls.
C2_InsufficientDataError ==
    (Returned("historical_growth_analysis") /\ Len(call.historical_data) < 2)
    => /\ outcome.kind = "raise"
       /\ outcome.by = "historical_growth_analysis"

\* C3, as claimed: a series that holds a zero, at whatever position, never
\* gets a mapping of finite statistics.
C3_AnyZeroFails ==
    (/\ Returned("historical_growth_analysis")
     /\ \E i \in 1..Len(call.historical_data) : call.historical_data[i] = 0)
    => ~(outcome.kind = "return" /\ AllFinite(outcome.value))

\* C3, amended: a zero at any position but the last is a divisor: the call
\* does not raise, the growth rate at that position is infinite or NaN, and
\* the mapping returned has a mean_growth that is infinite or NaN and a NaN
\* std_dev.  The last element is no divisor: a series of 2 or more elements
\* with no zero before the last gets a mapping of finite statistics.
C3_ZeroDivisorNotFinite ==
    Returned("historical_growth_analysis") =>
        LET data == call.historical_data
            n == Len(data)
        IN  /\ \A i \in 1..(n - 1) :
                 data[i] = 0 =>
                   /\ ~IsFinite(locals.growth_rates[i])
                   /\ outcome.kind = "return"
                   /\ ~IsFinite(outcome.value.mean_growth)
                   /\ IsNaN(outcome.value.std_dev.sqrt_of)
            /\ (n >= 2 /\ \A i \in 1..(n - 1) : data[i] # 0) =>
                 outcome.kind = "return" /\ AllFinite(outcome.value)

\* C3's case: a zero in the middle of a series, and the infinite rate it gives.
C3_Witness ==
    /\ Returned("historical_growth_analysis")
    /\ Len(call.historical_data) = 3
    /\ call.historical_data[1] # 0
    /\ call.historical_data[2] = 0
    /\ call.historical_data[3] # 0
    /\ IsInf(locals.growth_rates[2])
    /\ outcome.kind = "return"
    /\ IsInf(outcome.value.mean_growth)

\* C5: on a series of n >= 2 elements with no zero among the first n - 1 there
\* are n - 1 growth rates, the i-th being (data[i+1] - data[i]) / data[i]; the
\* mapping returned has exactly the five keys, mean_growth is the sum of the
\* rates over their number, min_growth the least and max_growth the greatest
\* of them.  For main's series the rates are 1/10, 3/22, 2/25, 1/9, 11/75,
\* min_growth is 2/25 and max_growth 11/75.
C5_GrowthRatesAndStatistics ==
    LET data == call.historical_data
        n == Len(data)
    IN  (/\ Returned("historical_growth_analysis")
         /\ n >= 2
         /\ \A i \in 1..(n - 1) : data[i] # 0)
        => /\ Len(locals.growth_rates) = n - 1
           /\ \A i \in 1..(n - 1) :
                /\ IsFinite(locals.growth_rates[i])
                /\ Mul(locals.growth_rates[i], Int2F(data[i])) = Int2F(data[i + 1] - data[i])
           /\ outcome.kind = "return"
           /\ DOMAIN outcome.value = StatisticNames
           /\ Mul(outcome.value.mean_growth, Int2F(n - 1)) = Total(locals.growth_rates)
           /\ \E i \in 1..(n - 1) : locals.growth_rates[i] = outcome.value.min_growth
           /\ \A i \in 1..(n - 1) : Le(outcome.value.min_growth, locals.growth_rates[i])
           /\ \E i \in 1..(n - 1) : locals.growth_rates[i] = outcome.value.max_growth
           /\ \A i \in 1..(n - 1) : Le(locals.growth_rates[i], outcome.value.max_growth)
           /\ data = MainHistoricalData =>
                /\ locals.growth_rates = <<R(1, 10), R(3, 22), R(2, 25), R(1, 9), R(11, 75)>>
                /\ outcome.value.min_growth = R(2, 25)
                /\ outcome.value.max_growth = R(11, 75)

\* C5's case: main's series, analysed.
C5_Witness ==
    /\ Returned("historical_growth_analysis")
    /\ call.historical_data = MainHistoricalData
    /\ outcome.kind = "return"
    /\ Len(locals.growth_rates) = 5

AllEqual(a) == \A i, j \in 1..Len(a) : a[i] = a[j]

----------------------------------------------------------------------------
(* The claim on all seven methods, under the threads' interleavings. *)

\* The outcome of call c made first and alone, on a new instance.
FirstAlone(c) == Apply(NoAttributes, c).ret

\* C9: however the calls of the threads interleave, and whatever calls were
\* made and failed before, a call ends as it would made first and alone on a
\* new instance; the instance has no attribute at any time, and the list
\* passed to historical_growth_analysis is as it was passed.
C9_DeterminedByArguments ==
    /\ self = NoAttributes
    /\ \A t \in Threads : pc[t] = "returned" => outcome[t] = FirstAlone(call[t])
    /\ \A t \in Threads :
         call[t].op = "historical_growth_analysis" =>
           historical_data = call[t].historical_data

\* C9's case: one thread holds the exception of a failed call, another the
\* value calculate_wacc returned, a third value being computed or not.
C9_Witness ==
    \E t, u \in Threads :
        /\ pc[t] = "returned"
        /\ outcome[t].kind = "raise"
        /\ pc[u] = "returned"
        /\ call[u].op = "calculate_wacc"
        /\ outcome[u].kind = "return"

=============================================================================
